---- MODULE Spec2Model ----
(***************************************************************************)
(* Model of common.go of go-octoprint: the two normalising JSON decoders   *)
(* (TemperatureState.UnmarshalJSON, HistoricTemperatureData.UnmarshalJSON) *)
(* and the ConnectionState prefix classifier.                              *)
(*                                                                         *)
(* JSON documents are modelled as value trees (what encoding/json parses   *)
(* the bytes into); a byte string that is not JSON is the tree Invalid.    *)
(* A JSON number is the float64 it parses to, written in mixed radix,      *)
(*    value = sign * (days * 86400 + secs + tenths / 10),                  *)
(* because epoch values around the year 10000 do not fit TLC's integers.   *)
(***************************************************************************)
EXTENDS Integers, Sequences, FiniteSets, TLC

VARIABLES
    kind,     \* which receiver the caller holds: "temp" (*TemperatureState) or "hist" (*HistoricTemperatureData)
    zone,     \* offset in seconds of the process's time.Local
    recv,     \* the receiver *r / *h
    before,   \* the receiver as it was when the last call started
    input,    \* the JSON document the last call was given
    buf,      \* the caller's byte slice after the last call
    mid,      \* the re-encoded intermediate document of the last call (b after json.Marshal)
    outcome,  \* how the last call ended: "none", "ok", "error", "panic"
    label,    \* the ConnectionState under classification
    asked,    \* the predicates evaluated on label so far
    answer    \* the value each evaluated predicate returned

vars == <<kind, zone, recv, before, input, buf, mid, outcome, label, asked, answer>>

decodeVars == <<kind, zone, recv, before, input, buf, mid, outcome>>

labelVars == <<label, asked, answer>>

----------------------------------------------------------------------------
(* Bounds of the model *)

\* longest "history" array the caller sends
MaxHistory == 2

----------------------------------------------------------------------------
(* JSON value trees *)

ToolNames == {"tool0", "bed"}

\* every key a top-level object of the model may hold
Keys == ToolNames \cup {"history", "time"}

ReadingKeys == {"actual", "target", "offset"}

\* marks a key that an object (a Go map) does not hold
Absent == [t |-> "absent"]

Invalid == [t |-> "invalid"]

JNull == [t |-> "null"]

JBool(b) == [t |-> "bool", b |-> b]

JStr(s) == [t |-> "str", s |-> s]

JArr(a) == [t |-> "arr", a |-> a]

JObj(m) == [t |-> "obj", m |-> m]

Num(neg, days, secs, tenths) ==
    [t |-> "num", neg |-> neg, days |-> days, secs |-> secs, tenths |-> tenths]

Whole(n) == Num(FALSE, 0, n, 0)

Zero == Whole(0)

\* the keys an object holds
KeysOf(m) == {k \in DOMAIN m : m[k] # Absent}

\* an object over key universe K from a function on some of its keys
Over(K, f) == [k \in K |-> IF k \in DOMAIN f THEN f[k] ELSE Absent]

----------------------------------------------------------------------------
(* Go's map operations on map[string]interface{}; NilMap is the nil map    *)
(* that json.Unmarshal leaves behind when the document is null.            *)

NilMap == [t |-> "nilmap"]

\* raw[k]: the nil interface (JSON null) when the key is missing or the map is nil
Index(raw, k) ==
    IF raw = NilMap THEN JNull
    ELSE IF raw[k] = Absent THEN JNull ELSE raw[k]

\* variant: the reserved key is left in the map
DeleteNothing(raw, k) == raw

\* delete(raw, k): a no-op on the nil map
Delete(raw, k) ==
    IF raw = NilMap THEN NilMap ELSE [raw EXCEPT ![k] = Absent]

\* json.Marshal of a map[string]interface{} held in an interface{}
MarshalMap(raw) == IF raw = NilMap THEN JNull ELSE JObj(raw)

\* json.Unmarshal(b, &raw) with raw a nil map[string]interface{}
UnmarshalRaw(b) ==
    CASE b.t = "obj"  -> [err |-> FALSE, raw |-> b.m]
      [] b.t = "null" -> [err |-> FALSE, raw |-> NilMap]
      [] OTHER        -> [err |-> TRUE, raw |-> NilMap]

----------------------------------------------------------------------------
(* time.Time: an instant as whole days since 1970-01-01 (floored), the     *)
(* second of that day and the nanosecond of that second.                   *)

\* int64(ts.(float64)): the fraction is dropped, truncating toward zero
Int64(n) ==
    [neg |-> n.neg /\ (n.days # 0 \/ n.secs # 0), days |-> n.days, secs |-> n.secs]

\* time.Unix(sec, 0)
Unix(sec) ==
    IF ~sec.neg THEN [day |-> sec.days, sod |-> sec.secs, nsec |-> 0]
    ELSE IF sec.secs = 0 THEN [day |-> -sec.days, sod |-> 0, nsec |-> 0]
    ELSE [day |-> -sec.days - 1, sod |-> 86400 - sec.secs, nsec |-> 0]

\* the proleptic Gregorian date of a day number (Time.Date)
Civil(day) ==
    LET z   == day + 719468
        era == z \div 146097
        doe == z - era * 146097
        yoe == (doe - doe \div 1460 + doe \div 36524 - doe \div 146096) \div 365
        doy == doe - (365 * yoe + yoe \div 4 - yoe \div 100)
        mp  == (5 * doy + 2) \div 153
        m   == IF mp < 10 THEN mp + 3 ELSE mp - 9
    IN  [y |-> yoe + era * 400 + (IF m <= 2 THEN 1 ELSE 0),
         m |-> m,
         d |-> doy - (153 * mp + 2) \div 5 + 1]

\* the day number of a proleptic Gregorian date (time.Date)
DaysFromCivil(y, m, d) ==
    LET yy  == IF m <= 2 THEN y - 1 ELSE y
        era == yy \div 400
        yoe == yy - era * 400
        doy == (153 * (IF m > 2 THEN m - 3 ELSE m + 9) + 2) \div 5 + d - 1
        doe == yoe * 365 + yoe \div 4 - yoe \div 100 + doy
    IN  era * 146097 + doe - 719468

\* the zone offset as RFC 3339 writes it ("Z07:00"): whole minutes, the
\* seconds of the offset cut off
ZoneMinutes(off) ==
    IF off >= 0 THEN (off \div 60) * 60 ELSE -(((-off) \div 60) * 60)

\* Time.MarshalJSON of a time in a location off seconds east of UTC: the
\* local date and clock with the zone offset, as an RFC 3339 string, or an
\* error when the local year is outside [0, 9999]
MarshalTime(tm, off) ==
    LET ls  == tm.sod + off
        ld  == tm.day + ls \div 86400
        sod == ls % 86400
        c   == Civil(ld)
    IN  IF c.y < 0 \/ c.y > 9999 THEN [err |-> TRUE, json |-> JNull]
        ELSE [err |-> FALSE,
              json |-> [t |-> "timestr", year |-> c.y, month |-> c.m, day |-> c.d,
                        hour |-> sod \div 3600, min |-> (sod % 3600) \div 60,
                        sec |-> sod % 60, nsec |-> tm.nsec, off |-> ZoneMinutes(off)]]

\* Time.UnmarshalJSON: the instant an RFC 3339 string names
ParseTime(s) ==
    LET us == s.hour * 3600 + s.min * 60 + s.sec - s.off
    IN  [day  |-> DaysFromCivil(s.year, s.month, s.day) + us \div 86400,
         sod  |-> us % 86400,
         nsec |-> s.nsec]

\* the zero time.Time, January 1 of year 1, 00:00:00 UTC
ZeroTime == [day |-> -719162, sod |-> 0, nsec |-> 0]

----------------------------------------------------------------------------
(* json.Unmarshal into the typed structs (the second decode of both        *)
(* decoders).  A value of the wrong JSON type is an UnmarshalTypeError;    *)
(* JSON null leaves a struct, map, slice or float64 at its zero value.     *)

\* one float64 field of TemperatureData
FieldErr(v) == v.t \notin {"absent", "null", "num"}

Field(v) == IF v.t = "num" THEN v ELSE Zero

ZeroData == [Actual |-> Zero, Target |-> Zero, Offset |-> Zero]

\* a JSON value decoded into a TemperatureData
DataErr(v) ==
    CASE v.t = "null" -> FALSE
      [] v.t = "obj"  -> \E f \in ReadingKeys : FieldErr(v.m[f])
      [] OTHER        -> TRUE

Data(v) ==
    IF v.t = "obj" /\ ~DataErr(v)
    THEN [Actual |-> Field(v.m["actual"]), Target |-> Field(v.m["target"]),
          Offset |-> Field(v.m["offset"])]
    ELSE ZeroData

\* a JSON value decoded into a map[string]TemperatureData
ToolsErr(v) ==
    CASE v.t = "null" -> FALSE
      [] v.t = "obj"  -> \E k \in KeysOf(v.m) : DataErr(v.m[k])
      [] OTHER        -> TRUE

Tools(v) ==
    IF v.t = "obj"
    THEN [t |-> "map", kv |-> [k \in DOMAIN v.m |-> IF v.m[k] = Absent THEN Absent ELSE Data(v.m[k])]]
    ELSE NilMap

----------------------------------------------------------------------------
(* The receivers *)

NilSlice == [t |-> "nilslice"]

NilPtr == [t |-> "nilptr"]

\* the zero historicTemperatureData
ZeroHist == [Time |-> ZeroTime, Tools |-> NilMap]

\* the zero temperatureState
ZeroTemp == [Current |-> NilMap, History |-> NilSlice]

\* no intermediate document was built
NoMid == [t |-> "none"]

\* json.Marshal failed and its error was dropped: b is nil
NoBytes == [t |-> "nobytes"]

----------------------------------------------------------------------------
(* HistoricTemperatureData.UnmarshalJSON, as a function of the document    *)
(* and of the offset of time.Local: how the call ends, the value of *i,    *)
(* and the intermediate document.                                          *)

HistoricUnmarshal(b, off) ==
    LET first == UnmarshalRaw(b)
        ts    == Index(first.raw, "time")
        rest  == Delete(first.raw, "time")
        tm    == MarshalTime(Unix(Int64(ts)), off)
        doc   == [time |-> tm.json, tools |-> MarshalMap(rest)]
    IN  IF first.err
        THEN [outcome |-> "error", val |-> ZeroHist, mid |-> NoMid]
        ELSE IF ts.t # "num"
        THEN [outcome |-> "panic", val |-> ZeroHist, mid |-> NoMid]
        ELSE IF tm.err
        THEN [outcome |-> "error", val |-> ZeroHist, mid |-> NoBytes]
        ELSE IF ToolsErr(doc.tools)
        THEN [outcome |-> "error", val |-> ZeroHist, mid |-> JObj(doc)]
        ELSE [outcome |-> "ok",
              val     |-> [Time |-> ParseTime(doc.time), Tools |-> Tools(doc.tools)],
              mid     |-> JObj(doc)]

\* one element of the history array decoded into a *HistoricTemperatureData:
\* null is the nil pointer, anything else goes to UnmarshalJSON
Element(e, off) ==
    IF e.t = "null"
    THEN [outcome |-> "ok", val |-> NilPtr, mid |-> NoMid]
    ELSE HistoricUnmarshal(e, off)

\* the elements of a history array, in order
Elements(a, off) == [i \in 1..Len(a) |-> Element(a[i], off)]

\* the index of the first element whose decode did not succeed, or 0
FirstBad(rs) ==
    IF \E i \in 1..Len(rs) : rs[i].outcome # "ok"
    THEN CHOOSE i \in 1..Len(rs) :
            /\ rs[i].outcome # "ok"
            /\ \A j \in 1..(i - 1) : rs[j].outcome = "ok"
    ELSE 0

\* variant: null is taken for a type mismatch
HistoryErrOnNull(v) == v.t # "arr"

\* whether a JSON value is of no type a []*HistoricTemperatureData takes
HistoryErr(v) == v.t \notin {"arr", "null"}

\* variant: the entries are stored newest first
HistoryReversed(v, off) ==
    CASE v.t = "arr"  -> [t |-> "slice",
                          s |-> [i \in 1..Len(v.a) |->
                                    Elements(v.a, off)[Len(v.a) + 1 - i].val]]
      [] OTHER        -> NilSlice

\* a JSON value decoded into a []*HistoricTemperatureData
History(v, off) ==
    CASE v.t = "arr"  -> [t |-> "slice",
                          s |-> [i \in 1..Len(v.a) |-> Elements(v.a, off)[i].val]]
      [] OTHER        -> NilSlice

----------------------------------------------------------------------------
(* TemperatureState.UnmarshalJSON.  json.Marshal writes the keys of the    *)
(* intermediate map sorted, so "current" is decoded before "history"; a    *)
(* type error is recorded and the decode goes on, an error or a panic of   *)
(* an element's UnmarshalJSON ends it at once.                             *)

TemperatureUnmarshal(b, off) ==
    LET first   == UnmarshalRaw(b)
        history == Index(first.raw, "history")
        rest    == Delete(first.raw, "history")
        doc     == [current |-> MarshalMap(rest), history |-> history]
        rs      == IF doc.history.t = "arr" THEN Elements(doc.history.a, off) ELSE <<>>
        bad     == FirstBad(rs)
        typeErr == ToolsErr(doc.current) \/ HistoryErr(doc.history)
    IN  IF first.err
        THEN [outcome |-> "error", val |-> ZeroTemp, mid |-> NoMid]
        ELSE IF bad # 0
        THEN [outcome |-> rs[bad].outcome, val |-> ZeroTemp, mid |-> JObj(doc)]
        ELSE IF typeErr
        THEN [outcome |-> "error", val |-> ZeroTemp, mid |-> JObj(doc)]
        ELSE [outcome |-> "ok",
              val     |-> [Current |-> Tools(doc.current),
                           History |-> History(doc.history, off)],
              mid     |-> JObj(doc)]

\* variant: *i is copied to the receiver before the error check
StoreAlways(old, res) == res.val

\* *r = TemperatureState(*i) / *h = HistoricTemperatureData(*i), reached
\* only when the second decode returned no error
Store(old, res) == IF res.outcome = "ok" THEN res.val ELSE old

\* the caller's slice: b, _ = json.Marshal(...) rebinds the parameter only
CallerBytes(b, res) == b

----------------------------------------------------------------------------
(* The documents the caller sends *)

Reading(f) == JObj(Over(ReadingKeys, f))

\* {"actual":200.1,"target":200,"offset":0}
G1 == Reading(("actual" :> Num(FALSE, 0, 200, 1)) @@ ("target" :> Whole(200)) @@ ("offset" :> Zero))

\* {"actual":199,"target":null}: a historic reading, no offset
G2 == Reading(("actual" :> Whole(199)) @@ ("target" :> JNull))

GoodVals == {G1, G2}

\* tool values that are not JSON objects
NonObjects == {JNull, Whole(5), JStr("hot"), JBool(TRUE), JArr(<<>>)}

\* {"actual":"hot"}: an object, but not of a reading's shape
BadReading == Reading("actual" :> JStr("hot"))

BadVals == NonObjects \cup {BadReading}

\* the tool entries of a document: "tool0" well-formed, malformed or missing,
\* "bed" well-formed or missing
ToolMaps ==
    {f \in [ToolNames -> GoodVals \cup BadVals \cup {Absent}] :
        f["tool0"] # G2 /\ f["bed"] \in {G2, Absent}}

BaseMap == [k \in ToolNames |-> IF k = "tool0" THEN G1 ELSE Absent]

BadMap == [k \in ToolNames |-> IF k = "tool0" THEN Whole(5) ELSE Absent]

BothMap == [k \in ToolNames |-> IF k = "tool0" THEN G1 ELSE G2]

\* 1610000000 = 2021-01-07T06:13:20Z
T0 == Num(FALSE, 18634, 22400, 0)

\* 1610000000.7
T1 == Num(FALSE, 18634, 22400, 7)

\* 253402300799 = 9999-12-31T23:59:59Z, the last second of the year 9999
TLast == Num(FALSE, 2932896, 86399, 0)

\* -62167219200 = 0000-01-01T00:00:00Z, the first second of the year 0
TFirst == Num(TRUE, 719528, 0, 0)

TimeNums ==
    {T0, T1, Zero, Num(TRUE, 0, 0, 7), Num(TRUE, 0, 1, 5), Num(FALSE, 0, 86399, 9),
     TLast, Num(FALSE, 2932896, 86399, 9), Num(FALSE, 2932897, 0, 0),
     Num(FALSE, 2932896, 86000, 0), Num(FALSE, 2932897, 3599, 0),
     TFirst, Num(TRUE, 719528, 0, 5), Num(TRUE, 719528, 1, 0), Num(TRUE, 719527, 82800, 0),
     Num(FALSE, 11574074, 6400, 0)}

\* "time" values that are not JSON numbers
NonNumbers == {Absent, JNull, JStr("2021-01-07"), JBool(TRUE), G1, JArr(<<>>)}

\* documents that are not JSON objects
NonObjectDocs == {Invalid, JNull, JArr(<<>>), JStr("x"), Whole(5), JBool(FALSE)}

HistObj(f, tv) == JObj(Over(Keys, f @@ ("time" :> tv)))

HistInputs ==
    {HistObj(f, T0) : f \in ToolMaps}
        \cup {HistObj(BaseMap, tv) : tv \in TimeNums \cup NonNumbers}
        \cup {HistObj(BadMap, Absent), HistObj(BadMap, TLast)}
        \cup {HistObj(BaseMap @@ ("history" :> G2), T1)}
        \cup NonObjectDocs

\* {"time":1610000000,"tool0":{"actual":199,"target":null}}
EntryA == HistObj([k \in ToolNames |-> IF k = "tool0" THEN G2 ELSE Absent], T0)

\* {"time":1.5,"bed":{"actual":199,"target":null}}
EntryB == HistObj([k \in ToolNames |-> IF k = "bed" THEN G2 ELSE Absent], Num(FALSE, 0, 1, 5))

\* {"tool0":{...}}: no "time"
EntryNoTime == HistObj(BaseMap, Absent)

\* {"time":1610000000,"tool0":"hot"}
EntryBadTool == HistObj([k \in ToolNames |-> IF k = "tool0" THEN JStr("hot") ELSE Absent], T0)

\* the elements a history array is made of
HistElems == {EntryA, EntryB, JNull, EntryNoTime, EntryBadTool}

Histories == {JArr(a) : a \in UNION {[1..n -> HistElems] : n \in 0..MaxHistory}}

TempObj(f, hv) == JObj(Over(Keys, f @@ ("history" :> hv)))

TempInputs ==
    {TempObj(f, Absent) : f \in ToolMaps}
        \cup {TempObj(BaseMap, hv) : hv \in Histories \cup {JNull, Whole(5), G1}}
        \cup {TempObj(BadMap, JArr(<<e>>)) : e \in HistElems}
        \cup {TempObj(BothMap, JArr(<<EntryA>>)), TempObj(BothMap, JArr(<<EntryB, EntryA>>))}
        \cup {TempObj(BaseMap @@ ("time" :> G2), JArr(<<>>))}
        \cup NonObjectDocs

\* offsets of time.Local the process may run under: UTC-5, UTC, and a local
\* mean time 19 minutes 32 seconds east of UTC
ZoneOffsets == {-18000, 0, 1172}

----------------------------------------------------------------------------
(* The ConnectionState classifier *)

\* strings.HasPrefix
HasPrefix(s, prefix) ==
    Len(s) >= Len(prefix) /\ SubSeq(s, 1, Len(prefix)) = prefix

\* variant: "Paused" is not tested
IsOperationalNoPaused(s) ==
    HasPrefix(s, "Operational") \/ HasPrefix(s, "Transfering")

IsOperational(s) ==
    \/ HasPrefix(s, "Operational")
    \/ HasPrefix(s, "Transfering")
    \/ HasPrefix(s, "Paused")

IsPrinting(s) ==
    \/ HasPrefix(s, "Printing")
    \/ HasPrefix(s, "Sending")
    \/ HasPrefix(s, "Paused")

IsOffline(s) ==
    \/ HasPrefix(s, "Offline")
    \/ HasPrefix(s, "Closed")

\* variant: "Offline" is tested too
IsErrorOrOffline(s) ==
    HasPrefix(s, "Error") \/ HasPrefix(s, "Unknown") \/ HasPrefix(s, "Offline")

IsError(s) ==
    \/ HasPrefix(s, "Error")
    \/ HasPrefix(s, "Unknown")

IsConnecting(s) ==
    \/ HasPrefix(s, "Opening")
    \/ HasPrefix(s, "Detecting")
    \/ HasPrefix(s, "Connecting")
    \/ HasPrefix(s, "Detecting")

Predicates == {"IsOperational", "IsPrinting", "IsOffline", "IsError", "IsConnecting"}

\* the prefixes the five predicates test
Stems ==
    {"Operational", "Transfering", "Paused", "Printing", "Sending", "Offline",
     "Closed", "Error", "Unknown", "Opening", "Detecting", "Connecting"}

Suffixes == {"", " from SD", ": x", "Paused", "Error"}

\* the labels classified: every tested prefix alone, followed by text, after
\* a blank, cut one character short, and labels of no family
Labels ==
    {p \o x : p \in Stems, x \in Suffixes}
        \cup {" " \o p : p \in Stems}
        \cup {SubSeq(p, 1, Len(p) - 1) : p \in Stems}
        \cup {"", "Something else entirely", "Transferring", "operational", "paused",
              "PAUSED", "offline", "error", "Offline after error", "Printing from SD",
              "Opening serial port", "Detecting serial port", "Transfering file"}

----------------------------------------------------------------------------
(* The decoders as operations on a receiver the caller holds *)

\* no call was made yet
NoCall == [t |-> "nocall"]

ZeroOf(k) == IF k = "temp" THEN ZeroTemp ELSE ZeroHist

Init ==
    /\ kind \in {"temp", "hist"}
    /\ zone \in ZoneOffsets
    /\ recv = ZeroOf(kind)
    /\ before = ZeroOf(kind)
    /\ input = NoCall
    /\ buf = NoCall
    /\ mid = NoMid
    /\ outcome = "none"
    /\ label = ""
    /\ asked = {}
    /\ answer = [p \in Predicates |-> FALSE]

\* Both decoders are functions of the document and of time.Local alone;
\* their results are tabulated once for the documents the caller sends.
TempResults == [z \in ZoneOffsets |-> [b \in TempInputs |-> TemperatureUnmarshal(b, z)]]

HistResults == [z \in ZoneOffsets |-> [b \in HistInputs |-> HistoricUnmarshal(b, z)]]

\* func (r *TemperatureState) UnmarshalJSON(b []byte) error
TemperatureState_UnmarshalJSON(b) ==
    /\ kind = "temp"
    /\ outcome # "panic"
    /\ LET res == TempResults[zone][b]
       IN  /\ recv' = Store(recv, res)
           /\ buf' = CallerBytes(b, res)
           /\ mid' = res.mid
           /\ outcome' = res.outcome
    /\ before' = recv
    /\ input' = b
    /\ UNCHANGED <<kind, zone, labelVars>>

\* func (h *HistoricTemperatureData) UnmarshalJSON(b []byte) error
HistoricTemperatureData_UnmarshalJSON(b) ==
    /\ kind = "hist"
    /\ outcome # "panic"
    /\ LET res == HistResults[zone][b]
       IN  /\ recv' = Store(recv, res)
           /\ buf' = CallerBytes(b, res)
           /\ mid' = res.mid
           /\ outcome' = res.outcome
    /\ before' = recv
    /\ input' = b
    /\ UNCHANGED <<kind, zone, labelVars>>

Next ==
    \/ \E b \in TempInputs : TemperatureState_UnmarshalJSON(b)
    \/ \E b \in HistInputs : HistoricTemperatureData_UnmarshalJSON(b)

Spec == Init /\ [][Next]_vars

----------------------------------------------------------------------------
(* The classifier as operations on a label *)

InitLabel ==
    /\ label \in Labels
    /\ asked = {}
    /\ answer = [p \in Predicates |-> FALSE]
    /\ kind = "temp"
    /\ zone = 0
    /\ recv = ZeroTemp
    /\ before = ZeroTemp
    /\ input = NoCall
    /\ buf = NoCall
    /\ mid = NoMid
    /\ outcome = "none"

Ask(p, r) ==
    /\ p \notin asked
    /\ asked' = asked \cup {p}
    /\ answer' = [answer EXCEPT ![p] = r]
    /\ UNCHANGED <<label, decodeVars>>

CallIsOperational == Ask("IsOperational", IsOperational(label))

CallIsPrinting == Ask("IsPrinting", IsPrinting(label))

CallIsOffline == Ask("IsOffline", IsOffline(label))

CallIsError == Ask("IsError", IsError(label))

CallIsConnecting == Ask("IsConnecting", IsConnecting(label))

NextLabel ==
    \/ CallIsOperational
    \/ CallIsPrinting
    \/ CallIsOffline
    \/ CallIsError
    \/ CallIsConnecting

SpecLabel == InitLabel /\ [][NextLabel]_vars

----------------------------------------------------------------------------
(* Vocabulary of the properties *)

Called == outcome # "none"

\* the reserved key of the receiver's decoder
Reserved == IF kind = "temp" THEN "history" ELSE "time"

\* the key of the intermediate document that takes the other entries
RestKey == IF kind = "temp" THEN "current" ELSE "tools"

\* the non-reserved keys of the last document
ToolKeys == KeysOf(input.m) \ {Reserved}

\* an object whose "actual", "target" and "offset", where present, are
\* numbers or null
ValidReading(v) ==
    /\ v.t = "obj"
    /\ \A f \in ReadingKeys : v.m[f].t \in {"absent", "num", "null"}

\* the local year of the whole second of epoch value n
LocalYear(n, off) ==
    LET tm == Unix(Int64(n))
    IN  Civil(tm.day + (tm.sod + off) \div 86400).y

\* a history entry: an object with a numeric "time" that Go can write as an
\* RFC 3339 timestamp, every other key a valid reading
ValidEntry(e, off) ==
    /\ e.t = "obj"
    /\ e.m["time"].t = "num"
    /\ LocalYear(e.m["time"], off) \in 0..9999
    /\ \A k \in KeysOf(e.m) \ {"time"} : ValidReading(e.m[k])

\* the last document is an object whose non-reserved entries are valid readings
ValidTools == input.t = "obj" /\ \A k \in ToolKeys : ValidReading(input.m[k])

\* the last document is a well-formed temperature payload
WellFormedTemp ==
    /\ ValidTools
    /\ \/ input.m["history"] = Absent
       \/ /\ input.m["history"].t = "arr"
          /\ \A i \in 1..Len(input.m["history"].a) :
                ValidEntry(input.m["history"].a[i], zone)

\* the length of a []*HistoricTemperatureData
SliceLen(h) == IF h = NilSlice THEN 0 ELSE Len(h.s)

\* the number of entries of the last document's "history" array
M == IF input.m["history"] = Absent THEN 0 ELSE Len(input.m["history"].a)

----------------------------------------------------------------------------
(* Properties of the decoders, checked under Spec *)

\* C1: a historic entry whose "time" is missing or not a number ends in a
\* decode error returned to the caller, never in a panic.
C1_NoTimeIsDecodeError ==
    (kind = "hist" /\ Called /\ input.t = "obj" /\ input.m["time"].t # "num")
        => outcome = "error"

\* C2: a well-formed temperature payload with N non-reserved keys and an
\* optional history array of M valid entries decodes successfully; Current
\* holds exactly those N keys (never "history"), each the decoding of its
\* value, and History has length M with History[i] the decoding of the i-th
\* array element.
C2_WellFormedPayloadDecodes ==
    (kind = "temp" /\ Called /\ WellFormedTemp) =>
        /\ outcome = "ok"
        /\ KeysOf(recv.Current.kv) = ToolKeys
        /\ "history" \notin KeysOf(recv.Current.kv)
        /\ \A k \in ToolKeys : recv.Current.kv[k] = Data(input.m[k])
        /\ SliceLen(recv.History) = M
        /\ \A i \in 1..M :
              recv.History.s[i] = HistoricUnmarshal(input.m["history"].a[i], zone).val

\* two tools and two distinct history entries were decoded
C2_Witness ==
    /\ kind = "temp" /\ Called /\ WellFormedTemp
    /\ Cardinality(ToolKeys) = 2
    /\ M = 2
    /\ recv.History.s[1] # recv.History.s[2]

\* C4: whenever "time" is a JSON number t, the decode yields the instant
\* exactly trunc(t) whole seconds after the epoch, with no sub-second part.
C4_TimeIsTruncatedEpoch ==
    (kind = "hist" /\ Called /\ ValidTools /\ input.m["time"].t = "num") =>
        /\ outcome = "ok"
        /\ recv.Time = Unix(Int64(input.m["time"]))
        /\ recv.Time.nsec = 0

\* What the code does for a numeric "time": the decode succeeds exactly when
\* the local year of trunc(t) is within [0, 9999], and the Time decoded is
\* trunc(t) seconds after the epoch, later by the seconds that the zone
\* offset of time.Local has beyond whole minutes.
TimeRoundTrip ==
    (kind = "hist" /\ Called /\ ValidTools /\ input.m["time"].t = "num") =>
        LET t    == Unix(Int64(input.m["time"]))
            skew == zone - ZoneMinutes(zone)
        IN  /\ (outcome = "ok") = (LocalYear(input.m["time"], zone) \in 0..9999)
            /\ outcome \in {"ok", "error"}
            /\ outcome = "ok" =>
                  /\ recv.Time.day = t.day + (t.sod + skew) \div 86400
                  /\ recv.Time.sod = (t.sod + skew) % 86400
                  /\ recv.Time.nsec = 0

\* C5: a temperature object with no "history" key and valid readings decodes
\* without error, History is empty, and Current holds every key of the input.
C5_NoHistoryIsEmpty ==
    (kind = "temp" /\ Called /\ ValidTools /\ input.m["history"] = Absent) =>
        /\ outcome = "ok"
        /\ SliceLen(recv.History) = 0
        /\ recv.History = NilSlice
        /\ KeysOf(input.m) \subseteq KeysOf(recv.Current.kv)

\* a payload of two tools and no history was decoded
C5_Witness ==
    /\ kind = "temp" /\ Called /\ ValidTools
    /\ input.m["history"] = Absent
    /\ Cardinality(KeysOf(input.m)) = 2
    /\ outcome = "ok"

\* the reserved entry of the last document is in order: "history" missing
\* or an array of valid entries, "time" a number Go can write as a timestamp
ReservedInOrder ==
    IF kind = "temp"
    THEN \/ input.m["history"] = Absent
         \/ /\ input.m["history"].t = "arr"
            /\ \A i \in 1..Len(input.m["history"].a) :
                  ValidEntry(input.m["history"].a[i], zone)
    ELSE /\ input.m["time"].t = "num"
         /\ LocalYear(input.m["time"], zone) \in 0..9999

\* C6: in both decoders, a non-reserved key whose value is not a JSON object
\* (number, string, bool, array or null) makes the decode return an error.
C6_NonObjectToolIsDecodeError ==
    (/\ Called
     /\ input.t = "obj"
     /\ ReservedInOrder
     /\ \E k \in ToolKeys : input.m[k].t \in {"num", "str", "bool", "arr", "null"})
        => outcome = "error"

\* C7: a document that is not a JSON object (invalid JSON, array, string,
\* number, bool or null) makes either decoder return a decode error.
C7_NonObjectDocIsDecodeError ==
    (Called /\ input.t # "obj") => outcome = "error"

\* C9 as stated: the caller's bytes are unchanged and the intermediate object
\* has exactly two keys, one holding the value originally stored under the
\* reserved key (null when absent), one holding the other entries unchanged.
C9_ReservedValueKeptVerbatim ==
    (Called /\ input.t = "obj" /\ mid.t = "obj") =>
        /\ buf = input
        /\ DOMAIN mid.m = {Reserved, RestKey}
        /\ mid.m[Reserved] = Index(input.m, Reserved)
        /\ mid.m[RestKey] = JObj([input.m EXCEPT ![Reserved] = Absent])

\* C9 as the code has it: the caller's bytes are unchanged; the intermediate
\* object, whenever one is built, has exactly two keys; the one for the other
\* entries holds the input's entries minus the reserved key, unchanged; in
\* the temperature decoder "history" holds the original value (null when
\* absent), in the historic decoder "time" holds the RFC 3339 timestamp of
\* the number's whole seconds in time.Local, not the number.  The temperature
\* decoder builds the object for every JSON object it is given.
C9_SplitKeepsRestVerbatim ==
    Called =>
        /\ buf = input
        /\ (kind = "temp" /\ input.t = "obj") => mid.t = "obj"
        /\ (input.t = "obj" /\ mid.t = "obj") =>
              /\ DOMAIN mid.m = {Reserved, RestKey}
              /\ mid.m[RestKey] = JObj([input.m EXCEPT ![Reserved] = Absent])
              /\ KeysOf(mid.m[RestKey].m) = KeysOf(input.m) \ {Reserved}
              /\ IF kind = "temp"
                 THEN mid.m["history"] = Index(input.m, "history")
                 ELSE /\ input.m["time"].t = "num"
                      /\ mid.m["time"] = MarshalTime(Unix(Int64(input.m["time"])), zone).json
                      /\ mid.m["time"].t = "timestr"

\* a historic entry with a fractional "time" and a tool was split
C9_Witness ==
    /\ kind = "hist" /\ Called
    /\ input.t = "obj" /\ mid.t = "obj"
    /\ input.m["time"].t = "num" /\ input.m["time"].tenths # 0
    /\ KeysOf(mid.m["tools"].m) # {}

\* the decoding of the last document into a fresh receiver
Fresh ==
    IF kind = "temp" THEN TemperatureUnmarshal(input, zone).val
    ELSE HistoricUnmarshal(input, zone).val

\* C10: when a decode returns an error the receiver keeps the value it had
\* before the call; when it succeeds the receiver is the decoding of this
\* document alone, with no key or history entry of its earlier value.
C10_AllOrNothing ==
    Called =>
        /\ outcome = "error" => recv = before
        /\ outcome = "ok" =>
              /\ recv = Fresh
              /\ input.t = "obj" => KeysOf(recv[IF kind = "temp" THEN "Current" ELSE "Tools"].kv) = ToolKeys
              /\ kind = "temp" =>
                    SliceLen(recv.History) =
                        IF input.t = "obj" /\ input.m["history"].t = "arr" THEN M ELSE 0

\* a receiver that held two history entries went through a decode that
\* failed in a nested history entry
C10_Witness ==
    /\ kind = "temp" /\ Called
    /\ SliceLen(before.History) = 2
    /\ outcome = "error"
    /\ input.t = "obj" /\ input.m["history"].t = "arr"
    /\ \E i \in 1..M : HistoricUnmarshal(input.m["history"].a[i], zone).outcome = "error"

\* a receiver that held two tools and two history entries was decoded into
\* again, with success, from a document of one tool and no history
ReceiverReused ==
    /\ kind = "temp" /\ outcome = "ok"
    /\ SliceLen(before.History) = 2
    /\ Cardinality(KeysOf(before.Current.kv)) = 2
    /\ input.t = "obj" /\ Cardinality(KeysOf(input.m)) = 1

----------------------------------------------------------------------------
(* Properties of the classifier, checked under SpecLabel *)

\* whether s starts with one of the strings of P
StartsWithAny(s, P) == \E p \in P : \E n \in 0..Len(s) : SubSeq(s, 1, n) = p

\* the prefixes listed for each predicate
Family(p) ==
    CASE p = "IsOperational" -> {"Operational", "Transfering", "Paused"}
      [] p = "IsPrinting"    -> {"Printing", "Sending", "Paused"}
      [] p = "IsOffline"     -> {"Offline", "Closed"}
      [] p = "IsError"       -> {"Error", "Unknown"}
      [] p = "IsConnecting"  -> {"Opening", "Detecting", "Connecting"}

\* C3: each predicate is true exactly when the label starts, case-sensitively
\* and untrimmed, with one of its listed prefixes; a label of no family makes
\* all five false.
C3_PrefixFamilies ==
    /\ \A p \in asked : answer[p] = StartsWithAny(label, Family(p))
    /\ (asked = Predicates /\ ~StartsWithAny(label, UNION {Family(p) : p \in Predicates}))
          => \A p \in Predicates : ~answer[p]

\* all five predicates answered on a label with text after the prefix
C3_Witness ==
    /\ asked = Predicates
    /\ label = "Transfering file"
    /\ answer["IsOperational"]

\* C8: only IsOperational and IsPrinting can be true together, and they are
\* exactly when the label starts with "Paused"; at most two predicates hold.
C8_OnlyPausedOverlaps ==
    asked = Predicates =>
        /\ \A p, q \in Predicates :
              (p # q /\ answer[p] /\ answer[q]) => {p, q} = {"IsOperational", "IsPrinting"}
        /\ (answer["IsOperational"] /\ answer["IsPrinting"]) = StartsWithAny(label, {"Paused"})
        /\ Cardinality({p \in Predicates : answer[p]}) <= 2

\* a paused label answered by all five predicates
C8_Witness ==
    /\ asked = Predicates
    /\ answer["IsOperational"] /\ answer["IsPrinting"]
    /\ label # "Paused"

====
